---- MODULE Spec2Model ----
(***************************************************************************)
(* Model of backend/app.py: a Flask application with one route ("/"), the  *)
(* flask_cors extension enabled with its defaults, started with            *)
(* app.run(host='0.0.0.0', port=80).                                       *)
(*                                                                         *)
(* The module-level statements of app.py are the steps of the process:     *)
(* Flask(__name__), CORS(app), @app.route("/"), then the __main__ block.   *)
(* The framework calls are modelled by what they do with their default     *)
(* arguments, which are the only arguments app.py passes.                  *)
(*                                                                         *)
(* Two specifications share the definitions of request handling:           *)
(*   Spec          the process from import to exit, each request handled   *)
(*                 as one step and recorded in the log `responses`;        *)
(*   SpecThreaded  the listening server with NumThreads request threads    *)
(*                 (app.run serves threaded by default), each request      *)
(*                 handled in the framework's stages, interleaved.         *)
(***************************************************************************)
EXTENDS Integers, Sequences, FiniteSets, TLC

VARIABLES
    pc,           \* position of the process in app.py
    app,          \* the Flask application object built by lines 5-13
    bind_result,  \* outcome of the listening socket's bind in app.run
    bound,        \* <<host, port>> the server listens on, or <<>> when none
    exit_status,  \* exit status of the process, Running while it runs
    responses,    \* log of <<request, response>> pairs answered so far
    threads       \* per request thread: its stage, request context, response

vars == <<pc, app, bind_result, bound, exit_status, responses, threads>>

(***************************************************************************)
(* Bounds of the model.                                                    *)
(***************************************************************************)
MaxResponses == 2
NumThreads == 2

(***************************************************************************)
(* Constants of app.py.                                                    *)
(***************************************************************************)
Greeting == "Hello from the Python Backend API!"
Host == "0.0.0.0"
Port == 80
RootRule == <<"/">>

(***************************************************************************)
(* Requests.  A request is its method, its request target (the characters  *)
(* of the path with an optional "?query"), and its Origin header           *)
(* (NoOrigin when the header is absent).                                   *)
(***************************************************************************)
NoOrigin == "<absent>"
NoHeader == "<none>"
Running == -1

Methods == {"GET", "HEAD", "OPTIONS", "POST", "PUT", "DELETE", "PATCH"}
Targets == { <<"/">>,
             <<"/", "?", "q">>,
             <<"/", "a">>,
             <<"/", "/">> }
Origins == {NoOrigin, "http://a.example", "http://b.example"}

Requests == [method : Methods, target : Targets, origin : Origins]

(***************************************************************************)
(* The path of a request target: what precedes the first "?".  The WSGI    *)
(* server splits the target so before the application sees PATH_INFO.     *)
(***************************************************************************)
RECURSIVE PathOf(_)
PathOf(target) ==
    IF target = <<>> \/ Head(target) = "?"
    THEN <<>>
    ELSE <<Head(target)>> \o PathOf(Tail(target))

(***************************************************************************)
(* Werkzeug's slash merging (Map(merge_slashes=True), the default): each   *)
(* pair of adjacent slashes is replaced by one, left to right.             *)
(***************************************************************************)
RECURSIVE MergeSlashes(_)
MergeSlashes(path) ==
    IF Len(path) < 2
    THEN path
    ELSE IF path[1] = "/" /\ path[2] = "/"
         THEN <<"/">> \o MergeSlashes(Tail(Tail(path)))
         ELSE <<path[1]>> \o MergeSlashes(Tail(path))

(***************************************************************************)
(* Line 5: app = Flask(__name__).  A new application has no rules, no      *)
(* view functions and no after-request functions.                          *)
(***************************************************************************)
NoApp == [url_map |-> {}, view_functions |-> {}, after_request_funcs |-> {},
          created |-> FALSE]

Flask == [url_map |-> {}, view_functions |-> {}, after_request_funcs |-> {},
          created |-> TRUE]

(***************************************************************************)
(* Line 7: CORS(app) registers flask_cors' after-request function for all  *)
(* resources (resources defaults to r"/*", which matches every path).      *)
(***************************************************************************)
CORS(a) == [a EXCEPT !.after_request_funcs = @ \cup {"cors_after_request"}]

(***************************************************************************)
(* Line 10: @app.route("/") with no methods argument.  add_url_rule takes  *)
(* the default methods ("GET",), adds HEAD because GET is present, and     *)
(* adds OPTIONS because provide_automatic_options is on by default.        *)
(***************************************************************************)
DefaultMethodsMissingHead == {"GET", "OPTIONS"}

DefaultMethodsWithPost == {"GET", "HEAD", "OPTIONS", "POST"}

DefaultMethods == {"GET", "HEAD", "OPTIONS"}

route(a, rule, endpoint) ==
    [a EXCEPT !.url_map = @ \cup {[rule |-> rule, endpoint |-> endpoint,
                                   methods |-> DefaultMethods]},
              !.view_functions = @ \cup {endpoint}]

(***************************************************************************)
(* Lines 11-13: the view function.  It reads nothing and returns the       *)
(* greeting.                                                               *)
(***************************************************************************)
helloCounting == IF responses = <<>> THEN Greeting ELSE "Hello again!"

helloOther == "Hello"

hello == Greeting

CallView(endpoint) == IF endpoint = "hello" THEN hello ELSE ""

(***************************************************************************)
(* Responses.  `view` records which view function ran to produce the       *)
(* response ("" when none did); `allow` is the Allow header (a set of      *)
(* methods, empty when absent); `acao` is the Access-Control-Allow-Origin  *)
(* header (NoHeader when absent).                                          *)
(***************************************************************************)
Response(status, body, allow, view) ==
    [status |-> status, body |-> body, allow |-> allow, view |-> view,
     acao |-> NoHeader]

NotFound == Response(404, "<404 Not Found page>", {}, "")

MethodNotAllowed(valid) == Response(405, "<405 Method Not Allowed page>", valid, "")

RequestRedirect == Response(308, "<308 Permanent Redirect page>", {}, "")

make_default_options_response(methods) == Response(200, "", methods, "")

(***************************************************************************)
(* URL matching of the rule registered on line 10.  A static rule matches  *)
(* a path equal to it; the query string is not part of the path.           *)
(***************************************************************************)
rule_matchesPrefix(rule, path) ==
    Len(path) >= Len(rule) /\ SubSeq(path, 1, Len(rule)) = rule

rule_matches(rule, path) == rule = path

(***************************************************************************)
(* Werkzeug's MapAdapter.match for the application's url_map: a rule that  *)
(* matches path and method is the match; failing that, a rule matching     *)
(* the slash-merged path and the method gives a redirect to that path;     *)
(* failing that, rules matching a path but not the method give 405 with    *)
(* their methods; otherwise 404.                                           *)
(***************************************************************************)
RulesFor(a, path) == {r \in a.url_map : rule_matches(r.rule, path)}

match(a, method, path) ==
    LET exact  == {r \in RulesFor(a, path) : method \in r.methods}
        merged == {r \in RulesFor(a, MergeSlashes(path)) : method \in r.methods}
        have_match_for ==
            UNION {r.methods : r \in RulesFor(a, path)
                                     \cup RulesFor(a, MergeSlashes(path))}
    IN  IF exact # {}
        THEN [kind |-> "rule", rule |-> CHOOSE r \in exact : TRUE]
        ELSE IF merged # {}
        THEN [kind |-> "redirect", rule |-> CHOOSE r \in merged : TRUE]
        ELSE IF have_match_for # {}
        THEN [kind |-> "not_allowed", valid |-> have_match_for]
        ELSE [kind |-> "not_found"]

(***************************************************************************)
(* Flask.full_dispatch_request: match the URL, answer OPTIONS              *)
(* automatically, otherwise call the rule's view function; routing errors  *)
(* become the framework's error responses.                                 *)
(***************************************************************************)
full_dispatch_request(a, req) ==
    LET m == match(a, req.method, PathOf(req.target))
    IN  CASE m.kind = "rule" ->
                IF req.method = "OPTIONS"
                THEN make_default_options_response(m.rule.methods)
                ELSE Response(200, CallView(m.rule.endpoint), {}, m.rule.endpoint)
          [] m.kind = "redirect" -> RequestRedirect
          [] m.kind = "not_allowed" -> MethodNotAllowed(m.valid)
          [] OTHER -> NotFound

(***************************************************************************)
(* flask_cors with the defaults of CORS(app): origins "*",                 *)
(* send_wildcard False, always_send True.  With an Origin header the       *)
(* request's origin matches the wildcard and is echoed; without one the    *)
(* wildcard itself is sent.                                                *)
(***************************************************************************)
get_cors_originsNotAlways(request_origin) ==
    IF request_origin # NoOrigin THEN request_origin ELSE NoHeader

get_cors_origins(request_origin) ==
    IF request_origin # NoOrigin THEN request_origin ELSE "*"

cors_after_request(req, resp) ==
    IF resp.acao # NoHeader
    THEN resp
    ELSE [resp EXCEPT !.acao = get_cors_origins(req.origin)]

(***************************************************************************)
(* Flask.process_response runs the registered after-request functions on   *)
(* every response, error responses included.                               *)
(***************************************************************************)
process_response(a, req, resp) ==
    IF "cors_after_request" \in a.after_request_funcs
    THEN cors_after_request(req, resp)
    ELSE resp

(***************************************************************************)
(* The response as written to the client: no body for a HEAD request.      *)
(***************************************************************************)
send(req, resp) ==
    IF req.method = "HEAD" THEN [resp EXCEPT !.body = ""] ELSE resp

wsgi_app(a, req) ==
    send(req, process_response(a, req, full_dispatch_request(a, req)))

(***************************************************************************)
(* The application as lines 5-13 leave it.                                 *)
(***************************************************************************)
AppAtStartup == route(CORS(Flask), RootRule, "hello")

(***************************************************************************)
(* Lines 16-19: app.run(host='0.0.0.0', port=80).  The server socket is    *)
(* bound before any request is accepted.  A failed bind (address in use,   *)
(* no permission for a low port) ends the process with status 1.           *)
(***************************************************************************)
BindResults == {"ok", "EADDRINUSE", "EACCES"}

runIgnoringBindError(result) ==
    [pc |-> "serving", bound |-> <<Host, Port>>, exit_status |-> Running]

run(result) ==
    IF result = "ok"
    THEN [pc |-> "serving", bound |-> <<Host, Port>>, exit_status |-> Running]
    ELSE [pc |-> "exited", bound |-> <<>>, exit_status |-> 1]

(***************************************************************************)
(* Request threads.  The request being handled is local to its thread      *)
(* (Flask's request context).                                              *)
(***************************************************************************)
Threads == 1..NumThreads

NoRequest == [method |-> "", target |-> <<>>, origin |-> NoOrigin]

NoResponse == Response(0, "", {}, "")

Idle == [stage |-> "idle", req |-> NoRequest, resp |-> NoResponse]

ThreadedRequests ==
    {r \in Requests : /\ r.method \in {"GET", "OPTIONS", "POST"}
                      /\ r.target \in {<<"/">>, <<"/", "a">>}}

Busy == {t \in Threads : threads[t].stage # "idle"}

request_ctxShared(t) ==
    threads[CHOOSE u \in Busy : \A v \in Busy : u <= v].req

request_ctx(t) == threads[t].req

(***************************************************************************)
(* Initial state: the interpreter is about to execute line 5.              *)
(***************************************************************************)
Init ==
    /\ pc = "line5"
    /\ app = NoApp
    /\ bind_result = "pending"
    /\ bound = <<>>
    /\ exit_status = Running
    /\ responses = <<>>
    /\ threads = [t \in Threads |-> Idle]

CreateApp ==
    /\ pc = "line5"
    /\ app' = Flask
    /\ pc' = "line7"
    /\ UNCHANGED <<bind_result, bound, exit_status, responses, threads>>

EnableCORS ==
    /\ pc = "line7"
    /\ app' = CORS(app)
    /\ pc' = "line10"
    /\ UNCHANGED <<bind_result, bound, exit_status, responses, threads>>

RegisterRoute ==
    /\ pc = "line10"
    /\ app' = route(app, RootRule, "hello")
    /\ pc' = "line16"
    /\ UNCHANGED <<bind_result, bound, exit_status, responses, threads>>

Run ==
    /\ pc = "line16"
    /\ \E result \in BindResults :
          /\ bind_result' = result
          /\ pc' = run(result).pc
          /\ bound' = run(result).bound
          /\ exit_status' = run(result).exit_status
    /\ UNCHANGED <<app, responses, threads>>

(***************************************************************************)
(* One request, handled from accept to the response written.  The view     *)
(* and the framework change nothing of the application.                    *)
(***************************************************************************)
HandleRequest ==
    /\ pc = "serving"
    /\ Len(responses) < MaxResponses
    /\ \E req \in Requests :
          responses' = Append(responses, [req |-> req, resp |-> wsgi_app(app, req)])
    /\ UNCHANGED <<pc, app, bind_result, bound, exit_status, threads>>

(***************************************************************************)
(* The server is interrupted (Ctrl-C): serve_forever returns, app.run      *)
(* returns and the script ends normally.                                   *)
(***************************************************************************)
Shutdown ==
    /\ pc = "serving"
    /\ pc' = "exited"
    /\ exit_status' = 0
    /\ UNCHANGED <<app, bind_result, bound, responses, threads>>

Next ==
    \/ CreateApp
    \/ EnableCORS
    \/ RegisterRoute
    \/ Run
    \/ HandleRequest
    \/ Shutdown

Spec == Init /\ [][Next]_vars

(***************************************************************************)
(* The threaded server: each thread takes a request through the stages     *)
(* of Flask.wsgi_app on its own, interleaved with the other threads.       *)
(***************************************************************************)
InitThreaded ==
    /\ pc = "serving"
    /\ app = AppAtStartup
    /\ bind_result = "ok"
    /\ bound = <<Host, Port>>
    /\ exit_status = Running
    /\ responses = <<>>
    /\ threads = [t \in Threads |-> Idle]

Accept(t) ==
    /\ pc = "serving"
    /\ threads[t].stage = "idle"
    /\ \E req \in ThreadedRequests :
          threads' = [threads EXCEPT ![t] =
                         [stage |-> "accepted", req |-> req, resp |-> NoResponse]]
    /\ UNCHANGED <<pc, app, bind_result, bound, exit_status, responses>>

Dispatch(t) ==
    /\ threads[t].stage = "accepted"
    /\ threads' = [threads EXCEPT
                      ![t].stage = "dispatched",
                      ![t].resp = full_dispatch_request(app, request_ctx(t))]
    /\ UNCHANGED <<pc, app, bind_result, bound, exit_status, responses>>

AfterRequest(t) ==
    /\ threads[t].stage = "dispatched"
    /\ threads' = [threads EXCEPT
                      ![t].stage = "processed",
                      ![t].resp = process_response(app, request_ctx(t), @)]
    /\ UNCHANGED <<pc, app, bind_result, bound, exit_status, responses>>

Send(t) ==
    /\ threads[t].stage = "processed"
    /\ threads' = [threads EXCEPT
                      ![t].stage = "sent",
                      ![t].resp = send(request_ctx(t), @)]
    /\ UNCHANGED <<pc, app, bind_result, bound, exit_status, responses>>

Close(t) ==
    /\ threads[t].stage = "sent"
    /\ threads' = [threads EXCEPT ![t] = Idle]
    /\ UNCHANGED <<pc, app, bind_result, bound, exit_status, responses>>

NextThreaded ==
    \E t \in Threads :
        \/ Accept(t)
        \/ Dispatch(t)
        \/ AfterRequest(t)
        \/ Send(t)
        \/ Close(t)

SpecThreaded == InitThreaded /\ [][NextThreaded]_vars

(***************************************************************************)
(* Properties.                                                             *)
(***************************************************************************)
Answered == {responses[i] : i \in 1..Len(responses)}

OnRoot(e) == PathOf(e.req.target) = <<"/">>

\* C1: every GET request whose path is "/", whatever its query string and
\* Origin header, is answered with status 200 and exactly the greeting body.
C1_GetRootGreets ==
    \A e \in Answered :
        (e.req.method = "GET" /\ OnRoot(e)) =>
            /\ e.resp.status = 200
            /\ e.resp.body = "Hello from the Python Backend API!"

C1_Witness ==
    \E e \in Answered :
        /\ e.req.method = "GET"
        /\ e.req.target = <<"/", "?", "q">>
        /\ e.req.origin = "http://a.example"
        /\ e.resp.status = 200
        /\ e.resp.body = "Hello from the Python Backend API!"

\* C2 (as stated): the Access-Control-Allow-Origin header of every response
\* permits every origin.
PermitsOrigin(acao, origin) == acao = "*" \/ acao = origin

C2_Original ==
    \A e \in Answered :
        \A o \in {"http://a.example", "http://b.example"} :
            PermitsOrigin(e.resp.acao, o)

\* C2 (amended): every response, for every path and method, error responses
\* and the reply to OPTIONS included, carries an Access-Control-Allow-Origin
\* header; it is "*" when the request has no Origin header and the request's
\* own origin otherwise, so it always permits the origin that asked.
C2_EveryResponseAllowsRequester ==
    \A e \in Answered :
        /\ e.resp.acao # NoHeader
        /\ e.req.origin = NoOrigin => e.resp.acao = "*"
        /\ e.req.origin # NoOrigin => e.resp.acao = e.req.origin

C2_Witness ==
    /\ \E e \in Answered :
          /\ e.resp.status = 404
          /\ e.req.origin = "http://a.example"
          /\ e.resp.acao = "http://a.example"
    /\ \E e \in Answered :
          /\ e.req.method = "OPTIONS"
          /\ OnRoot(e)
          /\ e.req.origin = NoOrigin
          /\ e.resp.acao = "*"

\* C3 (as stated): every request to "/" with a method other than GET is
\* answered with a status other than 200.
C3_Original ==
    \A e \in Answered :
        (OnRoot(e) /\ e.req.method # "GET") => e.resp.status # 200

\* C3 (amended): every request to "/" with a method other than GET, HEAD and
\* OPTIONS is answered with a status other than 200.
C3_OtherMethodsRejected ==
    \A e \in Answered :
        (OnRoot(e) /\ e.req.method \notin {"GET", "HEAD", "OPTIONS"}) =>
            e.resp.status # 200

C3_Witness ==
    \E e \in Answered :
        /\ OnRoot(e)
        /\ e.req.method = "POST"
        /\ e.resp.status = 405

SameAnswer(r1, r2) == r1.status = r2.status /\ r1.body = r2.body

C5_Idempotent ==
    /\ responses # <<>> => app = AppAtStartup
    /\ \A i \in 1..Len(responses) :
          SameAnswer(responses[i].resp, wsgi_app(AppAtStartup, responses[i].req))
    /\ \A i, j \in 1..Len(responses) :
          (/\ responses[i].req.method = responses[j].req.method
           /\ PathOf(responses[i].req.target) = PathOf(responses[j].req.target))
              => SameAnswer(responses[i].resp, responses[j].resp)

C5_Witness ==
    /\ Len(responses) >= 2
    /\ responses[1].req.method = "POST"
    /\ responses[2].req.method = "GET"
    /\ PathOf(responses[2].req.target) = <<"/">>
    /\ responses[2].resp.status = 200

\* C6: the server binds 0.0.0.0:80 and nothing else; a failed bind leaves the
\* process exited with a non-zero status and no request answered; a request
\* is answered only after a successful bind.
C6_BindBeforeServe ==
    /\ bound # <<>> => bound = <<"0.0.0.0", 80>>
    /\ bind_result \in {"EADDRINUSE", "EACCES"} =>
          /\ pc = "exited"
          /\ exit_status \notin {Running, 0}
          /\ bound = <<>>
          /\ responses = <<>>
    /\ responses # <<>> =>
          /\ bind_result = "ok"
          /\ bound = <<"0.0.0.0", 80>>
    /\ pc = "serving" => bind_result = "ok"

C6_Witness ==
    /\ bind_result = "EADDRINUSE"
    /\ pc = "exited"
    /\ exit_status = 1

\* C7: whatever the interleaving of the request threads, the response a
\* thread holds at each stage is the one its own request gets when handled
\* alone: status, body and CORS header depend on no other request in flight.
C7_ThreadsIndependent ==
    \A t \in Threads :
        /\ threads[t].stage = "dispatched" =>
              threads[t].resp = full_dispatch_request(AppAtStartup, threads[t].req)
        /\ threads[t].stage = "processed" =>
              threads[t].resp =
                  process_response(AppAtStartup, threads[t].req,
                      full_dispatch_request(AppAtStartup, threads[t].req))
        /\ threads[t].stage = "sent" =>
              threads[t].resp = wsgi_app(AppAtStartup, threads[t].req)

C7_Witness ==
    \E t, u \in Threads :
        /\ t < u
        /\ threads[t].stage = "dispatched"
        /\ threads[u].stage = "sent"
        /\ threads[t].req.method # threads[u].req.method
        /\ threads[t].req.target # threads[u].req.target
        /\ threads[t].req.origin # NoOrigin
        /\ threads[u].req.origin # NoOrigin
        /\ threads[t].req.origin # threads[u].req.origin

\* C8: on path "/" exactly GET, HEAD and OPTIONS are accepted, each answered
\* with status 200, HEAD and OPTIONS having been added by the framework;
\* every other method is rejected with status 405.
C8_RootMethods ==
    \A e \in Answered :
        OnRoot(e) =>
            /\ e.req.method \in {"GET", "HEAD", "OPTIONS"} => e.resp.status = 200
            /\ e.req.method \notin {"GET", "HEAD", "OPTIONS"} =>
                  /\ e.resp.status = 405
                  /\ e.resp.allow = {"GET", "HEAD", "OPTIONS"}

C8_Witness ==
    /\ \E e \in Answered :
          OnRoot(e) /\ e.req.method = "HEAD" /\ e.resp.status = 200
    /\ \E e \in Answered :
          OnRoot(e) /\ e.req.method = "DELETE" /\ e.resp.status = 405

====
